---- MODULE Spec2Model ----
(***************************************************************************)
(* A model of compact_bitset<N> (src/compact_bitset.h).                    *)
(*                                                                         *)
(* A backing word of type T is modelled as the set of the offsets of its   *)
(* 1 bits, a subset of 0 .. TBits-1: w | m is union, w & m intersection,   *)
(* ~w the complement in 0 .. TBits-1, T{1} << b the singleton {b}.  This   *)
(* keeps the full width of the 8, 16, 32 and 64 bit words.  The data array *)
(* is a sequence of NWords words (1-based here, 0-based in the source).    *)
(* An unsigned long long is modelled the same way, a subset of 0 .. 63.    *)
(***************************************************************************)
EXTENDS Integers, Sequences, FiniteSets

VARIABLES N, data, op, is

vars == <<N, data, op, is>>

\* ------------------------------------------------------------------ bounds

\* capacities 0 .. MaxSmallN are explored with every position and shift
MaxSmallN == 3
\* longest source string / stream content that is enumerated
MaxStrLen == 3

\* the larger capacities: one per word width (a full 8 bit word, partial 16
\* and 32 bit words, two 64 bit words)
Capacities == (0 .. MaxSmallN) \cup {8, 11, 20, 65}

Objs == {"x", "y"}

Other(o) == IF o = "x" THEN "y" ELSE "x"

\* ------------------------------------------------------- storage and layout

\* a word selection that never takes the 8- and 16-bit words
TBitsFrom32 == IF N <= 32 THEN 32 ELSE 64

TBits == IF N <= 8 THEN 8 ELSE IF N <= 16 THEN 16 ELSE IF N <= 32 THEN 32 ELSE 64

NFullyUsedWords == N \div TBits

NBitsRem == N % TBits

NWords == NFullyUsedWords + (IF NBitsRem # 0 THEN 1 ELSE 0)

AllMask == 0 .. (TBits - 1)

\* (T(1) << NBitsRem) - 1: the low NBitsRem bits; the zero word when NBitsRem = 0
LastWordMask == 0 .. (NBitsRem - 1)

\* the array <<f[1], ..., f[n]>> (the same function as f on 1 .. n, built
\* element by element)
RECURSIVE array_of(_, _)
array_of(f, n) == IF n = 0 THEN <<>> ELSE Append(array_of(f, n - 1), f[n])

\* compact_bitset(): data{{}}
DefaultData == array_of([w \in 1 .. NWords |-> {}], NWords)

\* compact_bitset(Uninitialized): the array is left indeterminate.  Every word
\* may hold anything; the two extreme patterns are the ones drawn.
Garbage == {{}, AllMask}

UninitializedData == {array_of([w \in 1 .. NWords |-> g], NWords) : g \in Garbage}

\* ------------------------------------------------------------ bit reference

\* make_ref(i): the word index (1-based) and the bit position inside the word
make_ref(i) == [word |-> (i \div TBits) + 1, bpos |-> i % TBits]

\* reference::operator bool() of make_ref(i): bool(word >> bpos & 0x1)
ref_get(d, i) == (i % TBits) \in d[(i \div TBits) + 1]

\* an assignment that rewrites the whole word around the bit
ref_assign_word(d, i, b) ==
    LET r == make_ref(i)
    IN  [d EXCEPT ![r.word] = IF b THEN {r.bpos} ELSE {}]

\* reference::operator=(bool b)
ref_assign(d, i, b) ==
    LET r == make_ref(i)
    IN  [d EXCEPT ![r.word] = IF b THEN @ \cup {r.bpos} ELSE @ \ {r.bpos}]

\* reference::flip()
ref_flip(d, i) == ref_assign(d, i, ~ref_get(d, i))

\* reference::operator=(const reference &o): *this = bool(o), for the
\* references to the bits i and j of one bitset
ref_copy(d, i, j) == ref_assign(d, i, ref_get(d, j))

\* the index of the bit at position b of word w (1-based)
bit_index(w, b) == (w - 1) * TBits + b

\* "for every i in DOMAIN f: ret[i] = f[i]": a loop of bit assignments whose
\* values do not depend on ret; the bits it does not write keep what ret held
assign_bits(ret, f) ==
    array_of([w \in 1 .. NWords |->
                 {b \in AllMask : IF bit_index(w, b) \in DOMAIN f
                                    THEN f[bit_index(w, b)]
                                  ELSE b \in ret[w]}], NWords)

\* size()
size == N

\* a range check that also rejects the last position, size() - 1
throw_if_at_last(pos) == pos + 1 >= size

\* throw_if_out_of_range(pos): TRUE when it throws std::out_of_range
throw_if_out_of_range(pos) == pos >= size

\* ------------------------------------------------------------- intrinsics

\* ffs(word): one plus the index of the lowest set bit, 0 for the zero word
ffs(word) == IF word = {} THEN 0
             ELSE (CHOOSE b \in word : \A c \in word : b <= c) + 1

\* get_popcount(word)
get_popcount(word) == Cardinality(word)

\* get_popcount without the builtins: the loop "for (i = 0; i < nBits; ++i)
\* if (word & (Int(0x1) << i)) ++ret", here from i on
RECURSIVE popcount_loop(_, _, _)
popcount_loop(word, i, nBits) ==
    IF ~(i < nBits) THEN 0
    ELSE (IF i \in word THEN 1 ELSE 0) + popcount_loop(word, i + 1, nBits)

\* get_popcount as compiled where the builtins are missing; nBits is the
\* width of the argument's type, that of T for the words this model passes
get_popcount_fallback(word) == popcount_loop(word, 0, TBits)

\* ------------------------------------------------------------ constructors

\* sizeof(unsigned long long) * 8
ULLBits == 64

\* a loop that stores the lowest set bit of val and stops
int_ctor_first(val, bit) ==
    /\ bit \in val
    /\ bit < N
    /\ \A c \in val : bit <= c

\* compact_bitset(unsigned long long val): the while loop takes the set bits
\* of val lowest first and breaks at the first one >= N (a check compiled in
\* only when unsigned long long is wider than N).  The loop reaches bit iff
\* no set bit of val up to it breaks.
int_ctor_reaches(val, bit) ==
    /\ bit \in val
    /\ ~(ULLBits > N /\ \E c \in val : c <= bit /\ c >= N)

int_ctor(val) ==
    assign_bits(DefaultData, [bit \in {c \in val : int_ctor_reaches(val, c)} |-> TRUE])

\* characters: the defaults CharT('0') and CharT('1'), and one that is neither
Zero == "0"

One == "1"

Bad == "x"

Alphabet == {Zero, One, Bad}

\* std::basic_string::npos, the largest size_type value; it only ever meets
\* std::min and <, so the largest integer of the model stands for it
NPos == 2147483647

Min(a, b) == IF a <= b THEN a ELSE b

\* compact_bitset(str, pos, n, zero, one): the copy loop runs i from pos while
\* i < n and j < N, with j = i - pos and n already cut to str.size(); these
\* are the values of i it visits when no character throws
str_ctor_visits(str, pos, n) ==
    {i \in pos .. (Min(n, Len(str)) - 1) : i - pos < N}

\* the pos check of the string constructor
str_ctor_pos_throws(str, pos) == pos >= Len(str) /\ N # 0

\* The result is the exception thrown ("none" if none) and the array built.
str_ctor(str, pos, n, zero, one) ==
    IF str_ctor_pos_throws(str, pos)
      THEN [err |-> "out_of_range", data |-> DefaultData]
    ELSE LET visits == str_ctor_visits(str, pos, n)
         IN  IF \E i \in visits : str[i + 1] # one /\ str[i + 1] # zero
               THEN [err |-> "invalid_argument", data |-> DefaultData]
             ELSE [err  |-> "none",
                   data |-> assign_bits(DefaultData,
                              [j \in {i - pos : i \in {v \in visits : str[v + 1] = one}} |-> TRUE])]

\* compact_bitset(const CharT *str, n, zero, one): the std::string it builds,
\* all of str when n is npos and its first n characters otherwise
cstr_source(str, n) == IF n = NPos THEN str ELSE SubSeq(str, 1, n)

\* compact_bitset(const CharT *str, n, zero, one): delegates with pos = 0
cstr_ctor(str, n, zero, one) == str_ctor(cstr_source(str, n), 0, n, zero, one)

\* ---------------------------------------------------------------- to_string

\* a to_string that writes one for the bits that are 0
to_string_inverted(d, zero, one) ==
    [c \in 1 .. size |-> IF ref_get(d, c - 1) THEN zero ELSE one]

\* to_string(zero, one): N characters, character bit is one iff (*this)[bit]
to_string(d, zero, one) ==
    [c \in 1 .. size |-> IF ref_get(d, c - 1) THEN one ELSE zero]

\* ------------------------------------------------------- integer conversion

\* handle_word of do_int_convert: the set bits of word, lowest first, moved
\* by bitOffset into ret; returns at the first one that does not fit IntBits
\* (no later one fits either)
handle_word(word, bitOffset, IntBits, ret) ==
    ret \cup {b + bitOffset : b \in {c \in word : c + bitOffset < IntBits}}

\* the loop of do_int_convert over the fully used words; yields ret and the
\* bitOffset the loop ends with
RECURSIVE int_convert_words(_, _, _, _, _)
int_convert_words(d, w, bitOffset, IntBits, ret) ==
    IF ~(w < NFullyUsedWords /\ bitOffset < IntBits)
      THEN [ret |-> ret, bitOffset |-> bitOffset]
    ELSE int_convert_words(d, w + 1, bitOffset + TBits, IntBits,
                           handle_word(d[w + 1], bitOffset, IntBits, ret))

do_int_convert(d, IntBits) ==
    IF N = 0 THEN {}
    ELSE LET full == int_convert_words(d, 0, 0, IntBits, {})
         IN  IF LastWordMask # {} /\ full.bitOffset < IntBits
               THEN handle_word(d[NWords] \cap LastWordMask, full.bitOffset, IntBits, full.ret)
             ELSE full.ret

\* a width check that also rejects a bitset exactly as wide as the integer
to_int_throws_at_width(IntBits) == size >= IntBits

\* the if constexpr of to_ulong / to_ullong: TRUE when std::overflow_error is thrown
to_int_throws(IntBits) == size > IntBits

\* the widths unsigned long has on the supported data models (LLP64, LP64)
ULongWidths == {32, 64}

\* ------------------------------------------------------- bitwise operators

\* the operators without the final mask, as the earlier header had them: the
\* bits of the last word above N stay what the uninitialized result held
leave_unused(d) == d

\* "if constexpr (LastWordMask != 0) ret.data[NWords-1] &= LastWordMask"
mask_unused(d) ==
    IF LastWordMask # {} THEN [d EXCEPT ![NWords] = @ \cap LastWordMask] ELSE d

\* operator&: ret starts uninitialized, ret[i] = lhs[i] & rhs[i] for i < size
op_and(lhs, rhs, uninit) ==
    mask_unused(assign_bits(uninit,
        [i \in 0 .. (size - 1) |-> ref_get(lhs, i) /\ ref_get(rhs, i)]))

\* operator|
op_or(lhs, rhs, uninit) ==
    mask_unused(assign_bits(uninit,
        [i \in 0 .. (size - 1) |-> ref_get(lhs, i) \/ ref_get(rhs, i)]))

\* an operator^ that computes the OR of the bits
op_xor_or(lhs, rhs, uninit) ==
    mask_unused(assign_bits(uninit,
        [i \in 0 .. (size - 1) |-> ref_get(lhs, i) \/ ref_get(rhs, i)]))

\* operator^
op_xor(lhs, rhs, uninit) ==
    mask_unused(assign_bits(uninit,
        [i \in 0 .. (size - 1) |-> ref_get(lhs, i) # ref_get(rhs, i)]))

\* a set() that fills the fully used words and leaves the partial last word
set_full_words(d) ==
    array_of([w \in 1 .. NWords |-> IF w <= NFullyUsedWords THEN AllMask ELSE d[w]], NWords)

\* set(): every fully used word becomes AllMask, a partial last word LastWordMask
set_all(d) ==
    array_of([w \in 1 .. NWords |->
                 IF w <= NFullyUsedWords THEN AllMask ELSE LastWordMask], NWords)

\* flip() inverting the last word like a fully used one
flip_all_words(d) == array_of([w \in 1 .. NWords |-> AllMask \ d[w]], NWords)

\* flip(): every fully used word is inverted, a partial last word inverted and masked
flip_all(d) ==
    array_of([w \in 1 .. NWords |->
                 IF w <= NFullyUsedWords THEN AllMask \ d[w]
                 ELSE (AllMask \ d[w]) \cap LastWordMask], NWords)

\* a complement that returns the copy without flipping it
op_not_copy(d) == d

\* operator~: compact_bitset{*this}.flip()
op_not(d) == flip_all(d)

\* A std::size_t s is held as the integer congruent to it modulo 2^64 that
\* lies nearest to 0: s itself when s is small, s - 2^64 (negative) when s is
\* within reach of the maximum.  Unsigned addition, wrap-around included, is
\* then integer addition, and a negative integer is greater than every
\* non-negative one.

\* std::numeric_limits<std::size_t>::max(), 2^64 - 1
SizeMax == -1

\* a < b on std::size_t
size_lt(a, b) == IF (a >= 0) = (b >= 0) THEN a < b ELSE a >= 0

\* a copy loop that tests i + shift < N for every i < N: the sum wraps around
\* for a shift near the maximum
shl_copied_each(shift) ==
    {i \in 0 .. (N - 1) : size_lt(i + shift, N)}

\* the indices i the loop "for (i = 0; i + shift < N; ++i)" runs its body
\* for: it stops at the first i that fails the test
shl_copied(shift) ==
    {i \in 0 .. (N - 1) : \A j \in 0 .. i : size_lt(j + shift, N)}

\* operator<<: ret[i] = false for i < shift and i < N, then
\* ret[i + shift] = (*this)[i] while i + shift < N, then the mask
op_shl(d, shift, uninit) ==
    LET pad  == assign_bits(uninit, [i \in {c \in 0 .. (N - 1) : size_lt(c, shift)} |-> FALSE])
        copy == assign_bits(pad, [k \in {i + shift : i \in shl_copied(shift)} |->
                                     ref_get(d, k - shift)])
    IN  mask_unused(copy)

\* operator>>: endpos, ret[i] = false for endpos <= i < N, then
\* ret[i] = (*this)[i + shift] for i < endpos, then the mask
op_shr(d, shift, uninit) ==
    LET endpos == IF ~size_lt(N, shift) THEN N - shift ELSE 0
        pad    == assign_bits(uninit, [i \in endpos .. (N - 1) |-> FALSE])
        copy   == assign_bits(pad, [i \in 0 .. (endpos - 1) |-> ref_get(d, i + shift)])
    IN  mask_unused(copy)

\* ---------------------------------------------------------- bulk predicates

\* count(): popcount of the fully used words plus that of the masked last word
RECURSIVE count_words(_, _)
count_words(d, i) ==
    IF ~(i < NFullyUsedWords) THEN 0
    ELSE get_popcount(d[i + 1]) + count_words(d, i + 1)

\* a count that leaves out the partial last word
count_full_words(d) == count_words(d, 0)

count(d) ==
    count_words(d, 0)
      + (IF LastWordMask # {} THEN get_popcount(d[NWords] \cap LastWordMask) ELSE 0)

\* an all() that wants at least one bit
all_nonempty(d) ==
    /\ size > 0
    /\ \A w \in 1 .. NFullyUsedWords : d[w] = AllMask
    /\ LastWordMask # {} => (d[NFullyUsedWords + 1] \cap LastWordMask) = LastWordMask

all(d) ==
    /\ \A w \in 1 .. NFullyUsedWords : d[w] = AllMask
    /\ LastWordMask # {} => (d[NFullyUsedWords + 1] \cap LastWordMask) = LastWordMask

\* an any() that leaves out the partial last word
any_full_words(d) == \E w \in 1 .. NFullyUsedWords : d[w] # {}

any(d) ==
    \/ \E w \in 1 .. NFullyUsedWords : d[w] # {}
    \/ LastWordMask # {} /\ (d[NFullyUsedWords + 1] \cap LastWordMask) # {}

none(d) == ~any(d)

\* operator==: the fully used words compared raw, the last word masked
op_eq(d, o) ==
    /\ \A w \in 1 .. NFullyUsedWords : d[w] = o[w]
    /\ LastWordMask # {} =>
         (d[NFullyUsedWords + 1] \cap LastWordMask) = (o[NFullyUsedWords + 1] \cap LastWordMask)

\* ------------------------------------------------------ raw bytes and hash

\* sizeof(T)
SizeofT == TBits \div 8

\* bits_size(): data.size() * sizeof(T)
bits_size(d) == Len(d) * SizeofT

\* bits(): the array as bytes (1-based here), least significant byte of a word
\* first; a byte is the set of its 1 bits, a subset of 0 .. 7
bits(d) ==
    [k \in 1 .. bits_size(d) |->
        LET w == (k - 1) \div SizeofT
            b == (k - 1) % SizeofT
        IN  {c \in 0 .. 7 : (8 * b + c) \in d[w + 1]}]

\* sizeof(std::size_t)
SizeofSizeT == 8

\* hash_code(): the bytes taken sizeof(std::size_t) at a time, a short last
\* chunk zero-extended, each chunk XORed into ret
RECURSIVE hash_loop(_, _, _)
hash_loop(bytes, cur, ret) ==
    IF ~(cur < Len(bytes)) THEN ret
    ELSE LET take == Min(Len(bytes) - cur, SizeofSizeT)
             \* memcpy of take bytes into the zeroed tmp
             tmp  == {g \in 0 .. (8 * SizeofSizeT - 1) :
                        (g \div 8) < take /\ (g % 8) \in bytes[cur + (g \div 8) + 1]}
         IN  hash_loop(bytes, cur + SizeofSizeT, (ret \ tmp) \cup (tmp \ ret))

hash_code(d) == hash_loop(bits(d), 0, {})

\* ------------------------------------------------------------ input stream

\* A std::basic_istream: the characters not yet read and the state bits.
\* peek, get and setstate behave as the standard library's do with the
\* default exception mask.
NewStream(str) == [buf |-> str, eof |-> FALSE, fail |-> FALSE, bad |-> FALSE]

\* the value of is in specifications that use no stream
NoStream == NewStream(<<>>)

good(s) == ~s.eof /\ ~s.fail /\ ~s.bad

\* Traits::eof() narrowed to CharT: equal to neither zero nor one
EofChar == "EOF"

\* is.peek(): the next character, not extracted; at end of input sets eofbit
peek(s) ==
    IF ~good(s) THEN [ch |-> EofChar, is |-> [s EXCEPT !.fail = TRUE]]
    ELSE IF s.buf = <<>> THEN [ch |-> EofChar, is |-> [s EXCEPT !.eof = TRUE]]
    ELSE [ch |-> Head(s.buf), is |-> s]

\* is.get(ch): extracts one character; at end of input sets eofbit and failbit
get(s) ==
    IF ~good(s) THEN [ch |-> EofChar, is |-> [s EXCEPT !.fail = TRUE]]
    ELSE IF s.buf = <<>> THEN [ch |-> EofChar, is |-> [s EXCEPT !.eof = TRUE, !.fail = TRUE]]
    ELSE [ch |-> Head(s.buf), is |-> [s EXCEPT !.buf = Tail(s.buf)]]

\* operator>>(is, x): the for loop; yields the stream, the array and i
RECURSIVE extract_loop(_, _, _, _, _)
extract_loop(s, d, i, zero, one) ==
    IF ~(i < N /\ ~s.eof) THEN [is |-> s, data |-> d, count |-> i]
    ELSE IF ~good(s) THEN [is |-> s, data |-> d, count |-> i]
    ELSE LET pk == peek(s)
         IN  IF pk.ch # one /\ pk.ch # zero
               THEN [is    |-> IF i = 0 THEN [pk.is EXCEPT !.fail = TRUE] ELSE pk.is,
                     data  |-> d,
                     count |-> i]
             ELSE LET g == get(pk.is)
                  IN  extract_loop(g.is, ref_assign(d, i, g.ch = one), i + 1, zero, one)

\* an extraction that does not clear its target first
keep_bits(d) == d

\* x.reset(): the array of a default-constructed bitset, whatever d is
reset(d) == DefaultData

\* operator>>(is, x) on the stream s and the array d of x: x.reset(), then the loop
op_extract(s, d, zero, one) == extract_loop(s, reset(d), 0, zero, one)

\* ------------------------------------------------------- the last operation

\* op records the last call: its name, the object it was made on, its
\* arguments, the exception it threw ("none" if it returned) and what it
\* returned ("void" if nothing)
Call(name, obj, args, err, ret) ==
    [name |-> name, obj |-> obj, args |-> args, err |-> err, ret |-> ret]

NoArgs == [none |-> TRUE]

Start == Call("start", "x", NoArgs, "none", "void")

\* ------------------------------------------------------------------ inputs

\* bit positions passed to the operations: all of them (and two past the
\* end) for the small capacities, both ends and one past the end otherwise
Positions == IF N <= MaxSmallN THEN 0 .. (N + 1) ELSE {0, N - 1, N}

\* shift amounts: the positions, and the two largest values of std::size_t
Shifts == Positions \cup {SizeMax, SizeMax - 1}

\* the strings of at most n characters
Strings(n) == UNION {[1 .. k -> Alphabet] : k \in 0 .. n}

\* stream contents parsed: at most one character, and for the small
\* capacities also N + 1 ones (one more than fits)
StreamInputs ==
    Strings(1) \cup (IF N <= MaxSmallN THEN {[k \in 1 .. (N + 1) |-> One]} ELSE {})

\* values passed to the integer constructor
IntValues ==
    IF N <= MaxSmallN THEN SUBSET (0 .. N)
    ELSE {{}, {0}, {N} \cap (0 .. 63), 0 .. 63}

\* -------------------------------------------------------------- operations

Assign(o, d) == data' = [data EXCEPT ![o] = d]

\* o.reset(): *this = compact_bitset()
Reset(o) ==
    /\ Assign(o, reset(data[o]))
    /\ op' = Call("reset", o, NoArgs, "none", "void")
    /\ UNCHANGED <<N, is>>

\* o = compact_bitset<N>(val)
IntConstruct(o, val) ==
    /\ Assign(o, int_ctor(val))
    /\ op' = Call("int_ctor", o, [val |-> val], "none", "void")
    /\ UNCHANGED <<N, is>>

\* o = compact_bitset<N>(str, pos, n); o keeps its value when the constructor throws
StrConstruct(o, str, pos, n) ==
    LET r == str_ctor(str, pos, n, Zero, One)
    IN  /\ Assign(o, IF r.err = "none" THEN r.data ELSE data[o])
        /\ op' = Call("str_ctor", o, [str |-> str, pos |-> pos, n |-> n], r.err, "void")
        /\ UNCHANGED <<N, is>>

\* o = compact_bitset<N>(other.to_string()), as the test parses what it printed
StrRoundTrip(o) ==
    \E n \in {1, NPos} :
        StrConstruct(o, to_string(data[Other(o)], Zero, One), 0, n)

\* o = other (copy assignment; the copy constructor does the same)
CopyAssign(o) ==
    /\ Assign(o, data[Other(o)])
    /\ op' = Call("copy", o, NoArgs, "none", "void")
    /\ UNCHANGED <<N, is>>

\* o.test(pos)
Test(o, pos) ==
    /\ op' = IF throw_if_out_of_range(pos)
               THEN Call("test", o, [pos |-> pos], "out_of_range", "void")
             ELSE Call("test", o, [pos |-> pos], "none", ref_get(data[o], pos))
    /\ UNCHANGED <<N, data, is>>

\* a set(pos, value) that clears the bitset before it checks pos
SetPosClearing(o, pos, value) ==
    /\ IF throw_if_out_of_range(pos)
         THEN /\ op' = Call("set_pos", o, [pos |-> pos, value |-> value], "out_of_range", "void")
              /\ Assign(o, DefaultData)
       ELSE /\ op' = Call("set_pos", o, [pos |-> pos, value |-> value], "none", "void")
            /\ Assign(o, ref_assign(data[o], pos, value))
    /\ UNCHANGED <<N, is>>

\* o.set(pos, value)
SetPos(o, pos, value) ==
    /\ IF throw_if_out_of_range(pos)
         THEN /\ op' = Call("set_pos", o, [pos |-> pos, value |-> value], "out_of_range", "void")
              /\ UNCHANGED data
       ELSE /\ op' = Call("set_pos", o, [pos |-> pos, value |-> value], "none", "void")
            /\ Assign(o, ref_assign(data[o], pos, value))
    /\ UNCHANGED <<N, is>>

\* o.reset(pos)
ResetPos(o, pos) ==
    /\ IF throw_if_out_of_range(pos)
         THEN /\ op' = Call("reset_pos", o, [pos |-> pos], "out_of_range", "void")
              /\ UNCHANGED data
       ELSE /\ op' = Call("reset_pos", o, [pos |-> pos], "none", "void")
            /\ Assign(o, ref_assign(data[o], pos, FALSE))
    /\ UNCHANGED <<N, is>>

\* o.flip(pos)
FlipPos(o, pos) ==
    /\ IF throw_if_out_of_range(pos)
         THEN /\ op' = Call("flip_pos", o, [pos |-> pos], "out_of_range", "void")
              /\ UNCHANGED data
       ELSE /\ op' = Call("flip_pos", o, [pos |-> pos], "none", "void")
            /\ Assign(o, ref_flip(data[o], pos))
    /\ UNCHANGED <<N, is>>

\* o[pos] = value: unchecked, so only called with pos < size()
IndexAssign(o, pos, value) ==
    /\ pos < size
    /\ Assign(o, ref_assign(data[o], pos, value))
    /\ op' = Call("index_assign", o, [pos |-> pos, value |-> value], "none", "void")
    /\ UNCHANGED <<N, is>>

\* o[pos].flip(): unchecked, so only called with pos < size()
IndexFlip(o, pos) ==
    /\ pos < size
    /\ Assign(o, ref_flip(data[o], pos))
    /\ op' = Call("index_flip", o, [pos |-> pos], "none", "void")
    /\ UNCHANGED <<N, is>>

\* o[pos] = o[from]: unchecked, so only called with pos < size() and from < size()
IndexCopy(o, pos, from) ==
    /\ pos < size
    /\ from < size
    /\ Assign(o, ref_copy(data[o], pos, from))
    /\ op' = Call("index_copy", o, [pos |-> pos, from |-> from], "none", "void")
    /\ UNCHANGED <<N, is>>

\* o.set()
SetAll(o) ==
    /\ Assign(o, set_all(data[o]))
    /\ op' = Call("set", o, NoArgs, "none", "void")
    /\ UNCHANGED <<N, is>>

\* o.flip()
FlipAll(o) ==
    /\ Assign(o, flip_all(data[o]))
    /\ op' = Call("flip", o, NoArgs, "none", "void")
    /\ UNCHANGED <<N, is>>

\* o &= rhs: *this = *this & rhs
And(o, rhs) ==
    /\ \E uninit \in UninitializedData : Assign(o, op_and(data[o], data[rhs], uninit))
    /\ op' = Call("and", o, [rhs |-> rhs], "none", "void")
    /\ UNCHANGED <<N, is>>

\* o |= rhs: *this = *this | rhs
Or(o, rhs) ==
    /\ \E uninit \in UninitializedData : Assign(o, op_or(data[o], data[rhs], uninit))
    /\ op' = Call("or", o, [rhs |-> rhs], "none", "void")
    /\ UNCHANGED <<N, is>>

\* o ^= rhs: *this = *this ^ rhs
Xor(o, rhs) ==
    /\ \E uninit \in UninitializedData : Assign(o, op_xor(data[o], data[rhs], uninit))
    /\ op' = Call("xor", o, [rhs |-> rhs], "none", "void")
    /\ UNCHANGED <<N, is>>

\* a ^= b; b ^= a; a ^= b, the three statements of the test program
XorSwap(a, b) ==
    /\ \E u1 \in UninitializedData, u2 \in UninitializedData, u3 \in UninitializedData :
          LET a1 == op_xor(data[a], data[b], u1)
              b2 == op_xor(data[b], a1, u2)
              a3 == op_xor(a1, b2, u3)
          IN  data' = [data EXCEPT ![a] = a3, ![b] = b2]
    /\ op' = Call("xor_swap", a, [rhs |-> b], "none", "void")
    /\ UNCHANGED <<N, is>>

\* o = ~a
Not(o, a) ==
    /\ Assign(o, op_not(data[a]))
    /\ op' = Call("not", o, [arg |-> a], "none", "void")
    /\ UNCHANGED <<N, is>>

\* o <<= shift: *this = (*this) << shift
Shl(o, shift) ==
    /\ \E uninit \in UninitializedData : Assign(o, op_shl(data[o], shift, uninit))
    /\ op' = Call("shl", o, [shift |-> shift], "none", "void")
    /\ UNCHANGED <<N, is>>

\* o >>= shift: *this = (*this) >> shift
Shr(o, shift) ==
    /\ \E uninit \in UninitializedData : Assign(o, op_shr(data[o], shift, uninit))
    /\ op' = Call("shr", o, [shift |-> shift], "none", "void")
    /\ UNCHANGED <<N, is>>

\* o.to_string()
ToString(o) ==
    /\ op' = Call("to_string", o, NoArgs, "none", to_string(data[o], Zero, One))
    /\ UNCHANGED <<N, data, is>>

\* o.to_ulong(), built where unsigned long has LBits bits
ToULong(o, LBits) ==
    /\ op' = IF to_int_throws(LBits)
               THEN Call("to_ulong", o, [bits |-> LBits], "overflow_error", "void")
             ELSE Call("to_ulong", o, [bits |-> LBits], "none", do_int_convert(data[o], LBits))
    /\ UNCHANGED <<N, data, is>>

\* o.to_ullong()
ToULLong(o) ==
    /\ op' = IF to_int_throws(ULLBits)
               THEN Call("to_ullong", o, [bits |-> ULLBits], "overflow_error", "void")
             ELSE Call("to_ullong", o, [bits |-> ULLBits], "none", do_int_convert(data[o], ULLBits))
    /\ UNCHANGED <<N, data, is>>

\* std::istringstream s(str); s >> o; the stream is local to the block
StreamParse(o, str) ==
    LET r == op_extract(NewStream(str), data[o], Zero, One)
    IN  /\ Assign(o, r.data)
        /\ op' = Call("parse", o, [str |-> str], "none", r.count)
        /\ UNCHANGED <<N, is>>

\* is >> o, on the stream the program holds.  args.entry is the stream and
\* args.before the array of o as the call found them, ret the number of
\* characters consumed.
Extract(o) ==
    LET r == op_extract(is, data[o], Zero, One)
    IN  /\ Assign(o, r.data)
        /\ is' = r.is
        /\ op' = Call("extract", o, [entry |-> is, before |-> data[o]], "none", r.count)
        /\ UNCHANGED N

\* o = compact_bitset<N>(cstr, n) from a character array holding cstr;
\* args.str is the std::string the constructor builds and delegates with
CStrConstruct(o, cstr, n) ==
    LET r == cstr_ctor(cstr, n, Zero, One)
    IN  /\ Assign(o, IF r.err = "none" THEN r.data ELSE data[o])
        /\ op' = Call("cstr_ctor", o,
                      [cstr |-> cstr, str |-> cstr_source(cstr, n), pos |-> 0, n |-> n],
                      r.err, "void")
        /\ UNCHANGED <<N, is>>

\* ------------------------------------------------------------ specification

\* compact_bitset<N> x, y;
Init ==
    /\ N \in Capacities
    /\ data = [o \in Objs |-> DefaultData]
    /\ op = Start
    /\ is = NoStream

\* The operations are made on x; y is the other operand, a copy taken of x.
Next ==
    \/ Reset("x")
    \/ \E val \in IntValues : IntConstruct("x", val)
    \/ StrRoundTrip("x")
    \/ \E o \in Objs : CopyAssign(o)
    \/ \E pos \in Positions : Test("x", pos)
    \/ \E pos \in Positions, value \in BOOLEAN : SetPos("x", pos, value)
    \/ \E pos \in Positions : ResetPos("x", pos)
    \/ \E pos \in Positions : FlipPos("x", pos)
    \/ \E pos \in Positions, value \in BOOLEAN : IndexAssign("x", pos, value)
    \/ SetAll("x")
    \/ FlipAll("x")
    \/ \E rhs \in Objs : And("x", rhs)
    \/ \E rhs \in Objs : Or("x", rhs)
    \/ \E rhs \in Objs : Xor("x", rhs)
    \/ \E a \in Objs : Not("x", a)
    \/ \E shift \in Shifts : Shl("x", shift)
    \/ \E shift \in Shifts : Shr("x", shift)
    \/ ToString("x")
    \/ \E LBits \in ULongWidths : ToULong("x", LBits)
    \/ ToULLong("x")
    \/ \E str \in StreamInputs : StreamParse("x", str)

Spec == Init /\ [][Next]_vars

\* ------------------------------------- specification: string construction

\* "01010100110", the string the test program parses into 20 bits
ExampleStr == <<Zero, One, Zero, One, Zero, One, Zero, Zero, One, One, Zero>>

StrCapacities == (0 .. MaxSmallN) \cup {20}

StrInputs == Strings(MaxStrLen) \cup {ExampleStr}

\* compact_bitset<N> x(str, pos, n) or x(str, n): the constructor is the first
\* call on x
InitStr ==
    /\ N \in StrCapacities
    /\ data = [o \in Objs |-> DefaultData]
    /\ op = Start
    /\ is = NoStream

NextStr ==
    \/ /\ op.name = "start"
       /\ \E str \in StrInputs :
            \E pos \in 0 .. (Len(str) + 1), n \in (0 .. (Len(str) + 1)) \cup {NPos} :
                StrConstruct("x", str, pos, n)
    \/ /\ op.name = "start"
       /\ \E cstr \in StrInputs :
            \E n \in (0 .. Len(cstr)) \cup {NPos} : CStrConstruct("x", cstr, n)

SpecStr == InitStr /\ [][NextStr]_vars

\* --------------------------------------------- specification: stream parse

\* std::istringstream is(str); compact_bitset<N> x, y; then any number of
\* is >> x, is >> y, with x perhaps filled in between
StreamCapacities == (0 .. MaxSmallN) \cup {20}

InitStream ==
    /\ N \in StreamCapacities
    /\ data = [o \in Objs |-> DefaultData]
    /\ op = Start
    /\ is \in {NewStream(str) : str \in StrInputs}

NextStream ==
    \/ \E o \in Objs : Extract(o)
    \/ SetAll("x")

SpecStream == InitStream /\ [][NextStream]_vars

\* ----------------------------------------- specification: integer conversion

\* capacities around the widths of unsigned long and unsigned long long
IntCapacities == {0, 1, 8, 9, 16, 17, 31, 32, 33, 63, 64, 65}

\* {4, 5, 7} is 0b10110000
IntSpecValues == {{}, {0}, {4, 5, 7}, {0, 63}, {31, 32}, 0 .. 63}

InitInt ==
    /\ N \in IntCapacities
    /\ data = [o \in Objs |-> DefaultData]
    /\ op = Start
    /\ is = NoStream

NextInt ==
    \/ \E val \in IntSpecValues : IntConstruct("x", val)
    \/ \E pos \in Positions : SetPos("x", pos, TRUE)
    \/ FlipAll("x")
    \/ \E LBits \in ULongWidths : ToULong("x", LBits)
    \/ ToULLong("x")

SpecInt == InitInt /\ [][NextInt]_vars

\* ---------------------------------------- specification: bitwise operators

\* the test program's use of the operators: two bitsets filled bit by bit
\* and by copy, combined with &=, |=, ^= and exchanged by the xor swap
NextBitwise ==
    \/ \E pos \in Positions, value \in BOOLEAN : IndexAssign("x", pos, value)
    \/ \E o \in Objs : CopyAssign(o)
    \/ \E rhs \in Objs : And("x", rhs)
    \/ \E rhs \in Objs : Or("x", rhs)
    \/ \E rhs \in Objs : Xor("x", rhs)
    \/ XorSwap("x", "y")

SpecBitwise == Init /\ [][NextBitwise]_vars

\* --------------------------------------------- specification: single bits

\* the writes of one bit, checked and unchecked, on bitsets that set() and
\* flip() fill
NextBit ==
    \/ \E pos \in Positions, value \in BOOLEAN : SetPos("x", pos, value)
    \/ \E pos \in Positions : ResetPos("x", pos)
    \/ \E pos \in Positions : FlipPos("x", pos)
    \/ \E pos \in Positions, value \in BOOLEAN : IndexAssign("x", pos, value)
    \/ \E pos \in Positions : IndexFlip("x", pos)
    \/ \E pos \in Positions, from \in Positions : IndexCopy("x", pos, from)
    \/ SetAll("x")
    \/ \E o \in Objs : CopyAssign(o)

SpecBit == Init /\ [][NextBit]_vars

\* ------------------------------------------------------------------ claims

\* the logical bits of an array: the positions i < N whose bit reads 1
BitsOf(d) == {i \in 0 .. (N - 1) : ref_get(d, i)}

IsBit(ch) == ch = Zero \/ ch = One

AllBits(str) == \A c \in 1 .. Len(str) : IsBit(str[c])

\* C1: after construction and after every mutating operation, every bit of
\* the raw byte view bits() / bits_size() at a position >= N is 0 (byte k,
\* 1-based, holds positions 8 (k - 1) .. 8 (k - 1) + 7).
UnusedBitsZero ==
    \A o \in Objs :
        \A k \in 1 .. bits_size(data[o]) :
            \A c \in bits(data[o])[k] : 8 * (k - 1) + c < N

\* an operator that builds its result in an uninitialized bitset has run on
\* two words with a partial last word and left the last valid bit set
C1_Witness ==
    /\ op.name \in {"and", "or", "xor", "shl", "shr"}
    /\ NWords = 2
    /\ NBitsRem # 0
    /\ N - 1 \in BitsOf(data["x"])

\* C2: two bitsets that compare equal (operator==) have equal hash codes.
HashConsistent ==
    op_eq(data["x"], data["y"]) => hash_code(data["x"]) = hash_code(data["y"])

\* x and y are equal and not zero, the last word is partial, and x is the
\* result of a whole-set flip or of a bitwise operator
C2_Witness ==
    /\ op.name \in {"flip", "not", "and", "or", "xor"}
    /\ op.obj = "x"
    /\ NBitsRem # 0
    /\ op_eq(data["x"], data["y"])
    /\ any(data["x"])

\* C3: test(pos), set(pos, v), reset(pos) and flip(pos) fail with
\* std::out_of_range exactly when pos >= N, and fail in no other way.
BoundsChecked ==
    op.name \in {"test", "set_pos", "reset_pos", "flip_pos"} =>
        /\ op.err \in {"none", "out_of_range"}
        /\ op.err = "out_of_range" <=> op.args.pos >= N

\* flip(pos) at the first position out of range, on a bitset with bits
C3_Witness ==
    /\ op.name = "flip_pos"
    /\ N > 0
    /\ op.args.pos = N
    /\ op.err = "out_of_range"

\* the number of characters the string constructor is specified to copy
CopyCount(str, pos, n) == Min(Min(n, N), Len(str) - pos)

\* C4 (as claimed): construction from [pos, pos + n) of a string of zeros and
\* ones with pos < len copies k = min(n, N, len - pos) characters: bit j is
\* (str[pos + j] = one) for j < k and 0 for k <= j < N.
C4_Claim ==
    (/\ op.name = "str_ctor"
     /\ op.args.pos < Len(op.args.str)
     /\ AllBits(op.args.str)) =>
        LET str == op.args.str
            pos == op.args.pos
            k   == CopyCount(str, pos, op.args.n)
        IN  /\ op.err = "none"
            /\ BitsOf(data["x"]) = {j \in 0 .. (N - 1) : j < k /\ str[pos + j + 1] = One}

\* C5 (as claimed): construction from a string fails with std::out_of_range
\* exactly when N > 0 and pos is greater than the length of the source.
C5_Claim ==
    op.name \in {"str_ctor", "cstr_ctor"} =>
        (op.err = "out_of_range" <=> (N > 0 /\ op.args.pos > Len(op.args.str)))

\* C6 (as claimed): construction from a string fails with
\* std::invalid_argument exactly when one of the characters at positions
\* pos .. pos + min(n, N, len - pos) - 1 is neither zero nor one.
C6_Claim ==
    op.name = "str_ctor" =>
        LET str == op.args.str
            pos == op.args.pos
            k   == CopyCount(str, pos, op.args.n)
        IN  op.err = "invalid_argument" <=>
                \E i \in pos .. (pos + k - 1) : ~IsBit(str[i + 1])

\* C7 (as claimed): for a string s of zeros and ones no longer than N (the
\* empty one included), compact_bitset<N>(s) is built and its to_string() is
\* the N characters of s followed by N - length(s) zeros.
C7_Claim ==
    (/\ op.name = "str_ctor"
     /\ op.args.pos = 0
     /\ op.args.n = NPos
     /\ AllBits(op.args.str)
     /\ Len(op.args.str) <= N) =>
        LET str == op.args.str
            out == to_string(data["x"], Zero, One)
        IN  /\ op.err = "none"
            /\ DOMAIN out = 1 .. N
            /\ \A c \in 1 .. N : out[c] = IF c <= Len(str) THEN str[c] ELSE Zero

\* C8 (as claimed): entered without the fail indicator, operator>> sets it
\* exactly when N > 0 and it consumed no character; it throws nothing.
C8_Claim ==
    (op.name = "extract" /\ ~op.args.entry.fail) =>
        /\ op.err = "none"
        /\ is.fail <=> (N > 0 /\ op.ret = 0)

\* the length of the longest prefix of str made of zeros and ones, at most N
LongestPrefix(str) ==
    CHOOSE k \in 0 .. Min(N, Len(str)) :
        /\ \A c \in 1 .. k : IsBit(str[c])
        /\ k = Min(N, Len(str)) \/ ~IsBit(str[k + 1])

\* C9: whatever the target held, operator>> consumes the longest prefix of
\* the remaining input made of zeros and ones, at most N characters, and
\* leaves the rest in the stream; bit i of the target is then (the i-th
\* consumed character = one) for i below the number consumed and 0 above.
StreamConsumption ==
    op.name = "extract" =>
        LET buf == op.args.entry.buf
            k   == op.ret
        IN  /\ k = LongestPrefix(buf)
            /\ is.buf = SubSeq(buf, k + 1, Len(buf))
            /\ BitsOf(data[op.obj]) = {i \in 0 .. (N - 1) : i < k /\ buf[i + 1] = One}

\* the test program's parse: N = 20, the 11 characters of "01010100110"
\* consumed into a target that held all ones
C9_Witness ==
    /\ op.name = "extract"
    /\ N = 20
    /\ op.args.entry.buf = ExampleStr
    /\ BitsOf(op.args.before) = 0 .. 19
    /\ op.ret = 11
    /\ BitsOf(data[op.obj]) = {1, 3, 5, 8, 9}

RECURSIVE ValueOf(_)
ValueOf(S) ==
    IF S = {} THEN 0
    ELSE LET i == CHOOSE c \in S : TRUE
         IN  2 ^ i + ValueOf(S \ {i})

\* C11: for N <= 64, compact_bitset<N>(v) has bit i equal to bit i of v for
\* every i < N and drops the bits of v at positions >= N; to_ullong() right
\* after it returns v mod 2^N, and to_ullong() of any bitset returns exactly
\* its set bits (the sum of 2^i over them).
IntRoundTrip ==
    [][N <= ULLBits =>
        /\ op'.name = "int_ctor" =>
              BitsOf(data'["x"]) = op'.args.val \cap (0 .. (N - 1))
        /\ op'.name = "to_ullong" =>
              /\ op'.err = "none"
              /\ op'.ret = BitsOf(data'["x"])
        /\ (op.name = "int_ctor" /\ op'.name = "to_ullong") =>
              op'.ret = op.args.val \cap (0 .. (N - 1))]_vars

\* N = 8: the bitset built from 0b10110000 converts back to 176
C11_Witness ==
    /\ N = 8
    /\ op.name = "to_ullong"
    /\ BitsOf(data["x"]) = {4, 5, 7}
    /\ op.err = "none"
    /\ ValueOf(op.ret) = 176

\* the word width the capacity N is specified to select
WordWidth == IF N <= 8 THEN 8 ELSE IF N <= 16 THEN 16 ELSE IF N <= 32 THEN 32 ELSE 64

\* C12: the word width W is 8 for N <= 8, 16 for 8 < N <= 16, 32 for
\* 16 < N <= 32 and 64 above; every bitset holds ceil(N / W) words of W bits
\* (none for N = 0), bits_size() is that count times W / 8, and bit i is
\* stored in word i / W at offset i % W: a bit just written is found there, and
\* the bits stored in the words are those of the positions that read 1.
WordLayout ==
    LET W == WordWidth
    IN  /\ TBits = W
        /\ \A o \in Objs :
              /\ Len(data[o]) = (N + W - 1) \div W
              /\ bits_size(data[o]) = ((N + W - 1) \div W) * (W \div 8)
              /\ \A w \in 1 .. Len(data[o]) :
                    data[o][w] = {i % W : i \in {c \in BitsOf(data[o]) : c \div W = w - 1}}
        /\ (op.name = "set_pos" /\ op.err = "none") =>
              ((op.args.pos % W) \in data["x"][(op.args.pos \div W) + 1] <=> op.args.value)

\* 17 bits take one 32-bit word: bit 16, just set, is at offset 16 of word 0
C12_Witness ==
    /\ N = 17
    /\ op.name = "set_pos"
    /\ op.args.pos = 16
    /\ data["x"] = <<{0, 16}>>
    /\ bits_size(data["x"]) = 4

\* the bits x << s is specified to have: bit i is bit i - s of x when i >= s.
\* A shift amount held as a negative integer is 2^64 + s, above every i.
ShiftedLeft(B, s) ==
    IF s < 0 THEN {} ELSE {i \in 0 .. (N - 1) : i >= s /\ (i - s) \in B}

\* the bits x >> s is specified to have: bit i is bit i + s of x when
\* i + s < N, the sum taken without wrap-around
ShiftedRight(B, s) ==
    IF s < 0 THEN {} ELSE {i \in 0 .. (N - 1) : i + s < N /\ (i + s) \in B}

\* C13: x <<= s leaves bit i equal to the former bit i - s when i >= s and 0
\* otherwise, x >>= s leaves bit i equal to the former bit i + s when
\* i + s < N and 0 otherwise, for every amount s (0, s >= N and the largest
\* values of the size type included); a shift by s >= N leaves the zero set.
ShiftSemantics ==
    [][/\ op'.name = "shl" =>
            /\ op'.err = "none"
            /\ BitsOf(data'["x"]) = ShiftedLeft(BitsOf(data["x"]), op'.args.shift)
       /\ op'.name = "shr" =>
            /\ op'.err = "none"
            /\ BitsOf(data'["x"]) = ShiftedRight(BitsOf(data["x"]), op'.args.shift)
       /\ (op'.name \in {"shl", "shr"} /\ (op'.args.shift < 0 \/ op'.args.shift >= N)) =>
            /\ BitsOf(data'["x"]) = {}
            /\ none(data'["x"])]_vars

\* a left shift by N - 1 of a bitset of two words has moved bit 0 to the top
C13_Witness ==
    /\ op.name = "shl"
    /\ NWords = 2
    /\ op.args.shift = N - 1
    /\ BitsOf(data["x"]) = {N - 1}

\* C14: count(x) + count(~x) = N for every bitset x and every N, 0 and the
\* exact multiples of the word width included: x = ~a leaves in x a bitset
\* whose count and the count of a add up to N.
ComplementLaw ==
    [][op'.name = "not" =>
          count(data[op'.args.arg]) + count(data'["x"]) = N]_vars

\* the complement of a bitset of two words, some but not all of whose bits
\* were set, has just been taken
C14_Witness ==
    /\ op.name = "not"
    /\ op.args.arg = "y"
    /\ NWords = 2
    /\ count(data["y"]) = 2
    /\ count(data["x"]) = N - 2

\* C15: x ^ x is the zero set, x & ~x is the zero set and x | ~x is the set
\* of all ones (what set() gives, for which all() holds): x ^= x leaves x
\* zero, and after x = ~y the next x &= y leaves x zero and the next x |= y
\* leaves x all ones.
SelfCancellation ==
    [][/\ (op'.name = "xor" /\ op'.args.rhs = "x") =>
            /\ BitsOf(data'["x"]) = {}
            /\ none(data'["x"])
       /\ (op.name = "not" /\ op.args.arg = "y" /\ op'.name = "and" /\ op'.args.rhs = "y") =>
            /\ BitsOf(data'["x"]) = {}
            /\ none(data'["x"])
       /\ (op.name = "not" /\ op.args.arg = "y" /\ op'.name = "or" /\ op'.args.rhs = "y") =>
            /\ BitsOf(data'["x"]) = 0 .. (N - 1)
            /\ all(data'["x"])
            /\ op_eq(data'["x"], set_all(DefaultData))]_vars

\* x | ~x has just given all ones on two words with a partial last word, for
\* a y neither zero nor all ones
C15_Witness ==
    /\ op.name = "or"
    /\ op.args.rhs = "y"
    /\ NWords = 2
    /\ NBitsRem # 0
    /\ any(data["y"])
    /\ ~all(data["y"])
    /\ all(data["x"])

\* C16: for N = 0, after any sequence of operations all() is true, any() is
\* false, none() is true, count() is 0 and to_string() is empty, and test,
\* set(pos), reset(pos) and flip(pos) fail with std::out_of_range for every
\* position.
ZeroCapacity ==
    N = 0 =>
        /\ \A o \in Objs :
              /\ all(data[o])
              /\ ~any(data[o])
              /\ none(data[o])
              /\ count(data[o]) = 0
              /\ to_string(data[o], Zero, One) = <<>>
        /\ op.name = "to_string" => op.ret = <<>>
        /\ op.name \in {"test", "set_pos", "reset_pos", "flip_pos"} =>
              op.err = "out_of_range"

\* flip(0) on a bitset of no bits has failed
C16_Witness ==
    /\ N = 0
    /\ op.name = "flip_pos"
    /\ op.args.pos = 0
    /\ op.err = "out_of_range"
    /\ all(data["x"])
    /\ none(data["x"])

\* the state scenario A ends in: 11 bits, bit 10 set and then bit 0, the
\* second of them by the last call or followed by to_string()
ScenarioA ==
    /\ N = 11
    /\ BitsOf(data["x"]) = {0, 10}
    /\ \/ op.name = "to_string"
       \/ op.name = "set_pos" /\ op.args.pos = 0 /\ op.args.value

\* C17 (as claimed): for N = 11, setting bit 10 and then bit 0 of the default
\* bitset yields to_string() = "10000000011".
C17_Claim ==
    ScenarioA =>
        to_string(data["x"], Zero, One) =
            <<One, Zero, Zero, Zero, Zero, Zero, Zero, Zero, Zero, One, One>>

\* C17 (amended): for N = 11, setting bit 10 and then bit 0 of the default
\* bitset yields to_string() = "10000000001": the characters at indices 0
\* and 10 are one and the nine between them zero.
ScenarioAString ==
    ScenarioA =>
        /\ to_string(data["x"], Zero, One) =
              <<One, Zero, Zero, Zero, Zero, Zero, Zero, Zero, Zero, Zero, One>>
        /\ op.name = "to_string" =>
              op.ret = <<One, Zero, Zero, Zero, Zero, Zero, Zero, Zero, Zero, Zero, One>>

\* to_string() has been called on the bitset of scenario A
C17_Witness ==
    /\ ScenarioA
    /\ op.name = "to_string"
    /\ Len(op.ret) = 11
    /\ op.ret[1] = One
    /\ op.ret[11] = One

\* C18: for every reachable bitset, count() is the number of positions
\* i < N whose bit is set, any() holds iff count() > 0, none() is the
\* negation of any(), all() holds iff count() = N, and the population count
\* of every word is the same from the builtin and from the fallback loop.
BulkPredicates ==
    \A o \in Objs :
        LET d == data[o]
        IN  /\ count(d) = Cardinality(BitsOf(d))
            /\ any(d) <=> count(d) > 0
            /\ none(d) <=> ~any(d)
            /\ all(d) <=> count(d) = N
            /\ \A w \in 1 .. NWords :
                  /\ get_popcount(d[w]) = get_popcount_fallback(d[w])
                  /\ get_popcount(d[w] \cap LastWordMask)
                        = get_popcount_fallback(d[w] \cap LastWordMask)

\* a bitset of two words with a partial last word holding only its highest
\* bit: any() is true through the last word alone
C18_Witness ==
    /\ NWords = 2
    /\ NBitsRem # 0
    /\ op.name \in {"set_pos", "flip_pos", "index_assign"}
    /\ BitsOf(data["x"]) = {N - 1}
    /\ any(data["x"])
    /\ count(data["x"]) = 1
    /\ ~all(data["x"])

\* C19: bit i of a & b, a | b, a ^ b is the AND, OR, XOR of bit i of a and
\* bit i of b for every i < N; x &= b, x |= b, x ^= b leave in x that result,
\* also when b is x itself; a ^= b; b ^= a; a ^= b exchanges the two values.
BitwiseAlgebra ==
    [][/\ op'.name = "and" =>
            BitsOf(data'["x"]) = BitsOf(data["x"]) \cap BitsOf(data[op'.args.rhs])
       /\ op'.name = "or" =>
            BitsOf(data'["x"]) = BitsOf(data["x"]) \cup BitsOf(data[op'.args.rhs])
       /\ op'.name = "xor" =>
            BitsOf(data'["x"]) =
                (BitsOf(data["x"]) \cup BitsOf(data[op'.args.rhs]))
                    \ (BitsOf(data["x"]) \cap BitsOf(data[op'.args.rhs]))
       /\ op'.name \in {"and", "or", "xor"} =>
            /\ op'.err = "none"
            /\ BitsOf(data'["y"]) = BitsOf(data["y"])
       /\ op'.name = "xor_swap" =>
            /\ BitsOf(data'["x"]) = BitsOf(data["y"])
            /\ BitsOf(data'["y"]) = BitsOf(data["x"])
            /\ op_eq(data'["x"], data["y"])
            /\ op_eq(data'["y"], data["x"])]_vars

\* the swap has exchanged two different, non-zero bitsets of two words
C19_Witness ==
    /\ op.name = "xor_swap"
    /\ NWords = 2
    /\ BitsOf(data["x"]) = {0}
    /\ BitsOf(data["y"]) = {0, N - 1}

\* C20: after x.set() every bit in [0, N) is 1 (all() holds, count() = N),
\* after x.reset() every bit is 0 (none() holds), after x.flip() every bit
\* in [0, N) is the inverse of what it was; none of them fails, and x = ~a
\* leaves in x what flip() makes of a copy of a.
WholeSetMutators ==
    [][/\ op'.name \in {"set", "reset", "flip", "not"} => op'.err = "none"
       /\ op'.name = "set" =>
            /\ BitsOf(data'["x"]) = 0 .. (N - 1)
            /\ all(data'["x"])
            /\ count(data'["x"]) = N
       /\ op'.name = "reset" =>
            /\ BitsOf(data'["x"]) = {}
            /\ none(data'["x"])
       /\ op'.name = "flip" =>
            BitsOf(data'["x"]) = (0 .. (N - 1)) \ BitsOf(data["x"])
       /\ op'.name = "not" =>
            /\ BitsOf(data'["x"]) = (0 .. (N - 1)) \ BitsOf(data[op'.args.arg])
            /\ op_eq(data'["x"], flip_all(data[op'.args.arg]))]_vars

\* set() has filled a bitset of two words whose last word is partial
C20_Witness ==
    /\ op.name = "set"
    /\ NWords = 2
    /\ NBitsRem # 0
    /\ all(data["x"])
    /\ count(data["x"]) = N
    /\ ~all(data["y"])

\* the words of d with the bit at pos made v and nothing else changed, the
\* words being WordWidth bits wide
WithBit(d, pos, v) ==
    [w \in 1 .. Len(d) |->
        IF w = (pos \div WordWidth) + 1
          THEN (IF v THEN d[w] \cup {pos % WordWidth} ELSE d[w] \ {pos % WordWidth})
        ELSE d[w]]

\* the value a successful single-bit write is specified to leave at its
\* position: v, 0, the inverse of the bit, or the value of the bit copied
WrittenValue(d, call) ==
    CASE call.name \in {"set_pos", "index_assign"} -> call.args.value
      [] call.name = "reset_pos" -> FALSE
      [] call.name \in {"flip_pos", "index_flip"} -> call.args.pos \notin BitsOf(d)
      [] call.name = "index_copy" -> call.args.from \in BitsOf(d)

\* C21: x[pos] = v, x.set(pos, v), x.reset(pos), x.flip(pos), x[pos].flip()
\* and x[i] = x[j], with the positions below N, change at most the bit at pos
\* (to v, 0, its inverse, the value of bit j) and leave every other bit of
\* every word as it was, so the checked and the unchecked form of a write
\* give equal bitsets; the other bitset is not touched.
SingleBitFrame ==
    [][(/\ op'.name \in {"set_pos", "reset_pos", "flip_pos",
                         "index_assign", "index_flip", "index_copy"}
        /\ op'.err = "none") =>
          /\ op'.args.pos < N
          /\ data'["x"] = WithBit(data["x"], op'.args.pos, WrittenValue(data["x"], op'))
          /\ data'["y"] = data["y"]
          /\ op'.name = "index_copy" =>
                (op'.args.from \in BitsOf(data'["x"]) <=> op'.args.from \in BitsOf(data["x"]))]_vars

\* x[0] = x[N - 1] has copied a 1 from the second word into bit 0 of the
\* first, the other bit that was set staying set and all the rest 0
C21_Witness ==
    /\ op.name = "index_copy"
    /\ NWords = 2
    /\ op.args.pos = 0
    /\ op.args.from = N - 1
    /\ BitsOf(data["x"]) = {0, N - 1}
    /\ BitsOf(data["y"]) = {N - 1}

\* C22: when test(pos), set(pos, v), reset(pos) or flip(pos) fails with
\* std::out_of_range, or to_ulong / to_ullong with std::overflow_error, both
\* bitsets hold the same words, bits and raw bytes as before the call, and
\* the stream is as it was.
UnchangedOnError ==
    [][(/\ op'.name \in {"test", "set_pos", "reset_pos", "flip_pos", "to_ulong", "to_ullong"}
        /\ op'.err # "none") =>
          /\ op'.err = IF op'.name \in {"to_ulong", "to_ullong"}
                         THEN "overflow_error" ELSE "out_of_range"
          /\ data' = data
          /\ \A o \in Objs :
                /\ BitsOf(data'[o]) = BitsOf(data[o])
                /\ bits(data'[o]) = bits(data[o])
          /\ is' = is]_vars

\* set(N) has failed on a bitset of two words that keeps the bits it had
C22_Witness ==
    /\ op.name = "set_pos"
    /\ op.err = "out_of_range"
    /\ op.args.pos = N
    /\ NWords = 2
    /\ BitsOf(data["x"]) = {0, N - 1}

====
